---- MODULE Spec2Model ----
(***************************************************************************)
(* Golf Swing Analyzer (src/golf_swing_app.py): the users and swings       *)
(* tables, the uploads directory, the HTTP handlers and the placeholder    *)
(* scoring functions.                                                      *)
(***************************************************************************)
EXTENDS Integers, Sequences, FiniteSets

VARIABLES
    users,      \* table "users", in insertion order
    swings,     \* table "swings", in insertion order
    uploads,    \* files of the uploads/ directory, in creation order
    now,        \* datetime.utcnow(), in days
    reqs,       \* the upload_swing requests suspended at `await file.read()`
    resp,       \* the response produced by the last handler that returned
    localStorage \* the userId items the pages keep: the ids /ensure-user returned

vars == <<users, swings, uploads, now, reqs, resp, localStorage>>

-----------------------------------------------------------------------------
(* Bounds of the model: the users, the rows the two tables hold together, the
   clock, the uploads in flight, the spacing of the sampled draws of the
   scoring functions and of the upload handler *)

MaxUsers == 2
MaxRows == 5
MaxNow == 60
TickDays == 30
NumSlots == 2
DrawStride == 4
UploadStride == 15

(* Program constants *)

WindowDays == 30
FreeLimit == 3
ScoreCap == 100

\* Python None and SQL NULL
None == "<None>"

-----------------------------------------------------------------------------
(* Scoring *)

Min(a, b) == IF a <= b THEN a ELSE b

AttrKeys == {"power", "accuracy", "consistency", "balance", "style"}

DrawRange ==
    [power       |-> [lo |-> 55, hi |-> 90],
     accuracy    |-> [lo |-> 50, hi |-> 90],
     consistency |-> [lo |-> 45, hi |-> 90],
     balance     |-> [lo |-> 55, hi |-> 95],
     style       |-> [lo |-> 50, hi |-> 95]]

\* the values random.randint(lo, hi) is sampled at: every DrawStride-th value
\* from lo, and hi itself
Sampled(k) ==
    {v \in DrawRange[k].lo .. DrawRange[k].hi :
        (v - DrawRange[k].lo) % DrawStride = 0 \/ v = DrawRange[k].hi}

\* the outcomes of compute_base_attributes()
compute_base_attributes ==
    {d \in [AttrKeys -> Int] :
        \A k \in AttrKeys : DrawRange[k].lo <= d[k] /\ d[k] <= DrawRange[k].hi}

GridDraws ==
    {[power |-> p, accuracy |-> a, consistency |-> c, balance |-> b, style |-> s] :
        p \in Sampled("power"), a \in Sampled("accuracy"),
        c \in Sampled("consistency"), b \in Sampled("balance"),
        s \in Sampled("style")}

\* every value of one attribute, the other four at the bottom of their ranges
LineDraws ==
    {[k \in AttrKeys |-> IF k = key THEN v ELSE DrawRange[k].lo] :
        key \in AttrKeys, v \in 45..95} \cap compute_base_attributes

SampledDraws == GridDraws \cup LineDraws

\* the draws the upload handler is run with: the five values at the same
\* distance n from the bottom of their ranges (the top, where the range is
\* shorter than n), for every UploadStride-th n and the longest range's end
UploadDraws ==
    {[k \in AttrKeys |-> Min(DrawRange[k].hi, DrawRange[k].lo + n)] :
        n \in {m \in 0..45 : m % UploadStride = 0 \/ m = 45}}

Styles == {"classic", "power", "flashy", "minimalist", "retro"}

\* multipliers in hundredths
mods(style_choice) ==
    CASE style_choice = "classic" ->
            [accuracy |-> 105, consistency |-> 106, style |-> 105]
      [] style_choice = "power" ->
            [power |-> 112, accuracy |-> 98]
      [] style_choice = "flashy" ->
            [style |-> 120, consistency |-> 95]
      [] style_choice = "minimalist" ->
            [consistency |-> 110, balance |-> 105, style |-> 95]
      [] OTHER -> [k \in {} |-> 100]

\* the bias without its ceiling: int(a * m)
BiasedUncapped(a, pct) == (a * pct) \div 100

\* int(min(100, a * m)) with m = pct / 100
Biased(a, pct) == Min(ScoreCap, (a * pct) \div 100)

apply_style_bias(attrs, style_choice) ==
    LET m == mods(style_choice)
    IN  [k \in DOMAIN attrs |->
            IF k \in DOMAIN m THEN Biased(attrs[k], m[k]) ELSE attrs[k]]

\* round(n / d) of Python 3: to nearest, ties to even
PyRound(n, d) ==
    LET q == n \div d
        r == n % d
    IN  IF 2 * r < d THEN q
        ELSE IF 2 * r > d THEN q + 1
        ELSE IF q % 2 = 0 THEN q ELSE q + 1

RECURSIVE SumOver(_, _)
SumOver(attrs, keys) ==
    IF keys = {} THEN 0
    ELSE LET k == CHOOSE x \in keys : TRUE
         IN  attrs[k] + SumOver(attrs, keys \ {k})

overall_from_attrs(attrs) ==
    PyRound(SumOver(attrs, DOMAIN attrs), Cardinality(DOMAIN attrs))

\* base: the outcome of compute_base_attributes()
process_swing(base, style_choice) ==
    LET attrs == apply_style_bias(base, style_choice)
    IN  [attributes |-> attrs, overall_score |-> overall_from_attrs(attrs)]

-----------------------------------------------------------------------------
(* Values *)

\* str(uuid.uuid4()) for the n-th row of the users table: a fresh string
UserUuid(n) == <<"u1", "u2", "u3", "u4", "u5", "u6", "u7", "u8">>[n]

\* the user ids a request can carry: the ids the pages hold, and the string a
\* page sends when its localStorage holds none. The id of a guest that
\* upload_swing creates is a fresh uuid4 that no response carries.
UserIds == {"null"} \cup localStorage

\* the user_id form field of an upload: absent, or a string
UserIdInputs == {None} \cup UserIds

\* file names, as sequences of characters
FileNames ==
    { <<"s", ".", "M", "P", "4">>,
      <<"s", ".", "t", "x", "t">> }

UploadStyles == {"power"}

EventTypes == {"checkout.session.completed", "invoice.paid"}

\* the name as it is
SameCase(str) == str

\* str.lower() on the characters that occur
LowerChar(c) ==
    CASE c = "M" -> "m" [] c = "P" -> "p" [] c = "O" -> "o" [] c = "V" -> "v"
      [] c = "K" -> "k" [] c = "A" -> "a" [] c = "I" -> "i" [] c = "T" -> "t"
      [] c = "X" -> "x" [] c = "S" -> "s" [] OTHER -> c

lower(str) == [i \in 1..Len(str) |-> LowerChar(str[i])]

endswith(str, suffix) ==
    /\ Len(suffix) <= Len(str)
    /\ SubSeq(str, Len(str) - Len(suffix) + 1, Len(str)) = suffix

VideoSuffixes ==
    { <<".", "m", "p", "4">>, <<".", "m", "o", "v">>,
      <<".", "m", "k", "v">>, <<".", "a", "v", "i">> }

\* the "basic file guard" of upload_swing
IsVideoName(filename) ==
    \E suffix \in VideoSuffixes : endswith(lower(filename), suffix)

-----------------------------------------------------------------------------
(* Tables *)

\* the guest with the column default for its style
NewUserDefaultStyle(id, style_choice) ==
    [id |-> id, name |-> "Guest", handicap |-> None, style_choice |-> "classic",
     is_premium |-> FALSE, subscription_plan |-> None]

\* User(id=..., name="Guest", style_choice=...) after commit and refresh
NewUser(id, style_choice) ==
    [id |-> id, name |-> "Guest", handicap |-> None, style_choice |-> style_choice,
     is_premium |-> FALSE, subscription_plan |-> None]

\* the swing stored as processed
NewSwingProcessed(id, user_id, save_path, style, created_at) ==
    [id |-> id, user_id |-> user_id, s3_video_path |-> save_path,
     processed |-> TRUE, overall_score |-> None, power |-> None,
     accuracy |-> None, consistency |-> None, balance |-> None,
     style_score |-> None, style_label |-> style, created_at |-> created_at]

\* Swing(id=..., user_id=..., s3_video_path=..., processed=False, style_label=...)
NewSwing(id, user_id, save_path, style, created_at) ==
    [id |-> id, user_id |-> user_id, s3_video_path |-> save_path,
     processed |-> FALSE, overall_score |-> None, power |-> None,
     accuracy |-> None, consistency |-> None, balance |-> None,
     style_score |-> None, style_label |-> style, created_at |-> created_at]

\* db.query(User).filter(User.id == user_id).first(): the row's position, 0 for none
FindUser(tbl, user_id) ==
    IF \E i \in DOMAIN tbl : tbl[i].id = user_id
    THEN CHOOSE i \in DOMAIN tbl : tbl[i].id = user_id
    ELSE 0

\* upload_swing: "get or create user if missing"; the users table afterwards
ResolvedUsers(user_id, style) ==
    IF user_id \notin {None, ""} /\ FindUser(users, user_id) # 0
    THEN users
    ELSE Append(users, NewUser(UserUuid(Len(users) + 1), style))

\* the position of the user upload_swing goes on with
ResolvedUser(user_id, style) ==
    IF user_id \notin {None, ""} /\ FindUser(users, user_id) # 0
    THEN FindUser(users, user_id)
    ELSE Len(users) + 1

\* db.query(Swing).filter(Swing.user_id == id, Swing.created_at >= cutoff).count()
SwingsInWindow(tbl, user_id, cutoff) ==
    Cardinality({i \in DOMAIN tbl :
        tbl[i].user_id = user_id /\ tbl[i].created_at >= cutoff})

\* the limit with > in the place of >=
LimitReachedAbove(user, t) ==
    /\ ~user.is_premium
    /\ SwingsInWindow(swings, user.id, t - WindowDays) > FreeLimit

\* the free plan limit, for the user row `user` at time t
LimitReached(user, t) ==
    /\ ~user.is_premium
    /\ SwingsInWindow(swings, user.id, t - WindowDays) >= FreeLimit

\* the two checks with the file guard first
UploadCheckFileFirst(user, filename, t) ==
    IF ~IsVideoName(filename) THEN 400
    ELSE IF LimitReached(user, t) THEN 403
    ELSE 200

\* the two checks of upload_swing, in the order it makes them: the status code
\* of the exception raised, 200 when none is
UploadCheck(user, filename, t) ==
    IF LimitReached(user, t) THEN 403
    ELSE IF ~IsVideoName(filename) THEN 400
    ELSE 200

UploadError(status_code) ==
    [op |-> "upload_swing", status |-> status_code,
     detail |-> IF status_code = 403
                THEN "Free plan limit reached. Upgrade to Premium for unlimited uploads."
                ELSE "Please upload a video file (mp4/mov/mkv/avi)."]

\* os.path.join("uploads", f"{uuid.uuid4()}_{file.filename}")
SavePath(filename) == [uuid |-> Len(uploads) + 1, filename |-> filename]

UploadResponse(swing, result, is_premium) ==
    [op |-> "upload_swing", status |-> 200, swing_id |-> swing.id,
     attributes |-> result.attributes, overall_score |-> result.overall_score,
     is_premium |-> is_premium]

-----------------------------------------------------------------------------
(* Handlers *)

Init ==
    /\ users = <<>>
    /\ swings = <<>>
    /\ uploads = <<>>
    /\ now = 0
    /\ reqs = {}
    /\ resp = [op |-> "none", status |-> 0]
    /\ localStorage = {}

ensure_user ==
    /\ Len(users) < MaxUsers
    /\ Len(users) + Len(uploads) < MaxRows
    /\ users' = Append(users, NewUser(UserUuid(Len(users) + 1), "classic"))
    /\ resp' = [op |-> "ensure_user", status |-> 200,
                user_id |-> UserUuid(Len(users) + 1)]
    /\ localStorage' = localStorage \cup {UserUuid(Len(users) + 1)}
    /\ UNCHANGED <<swings, uploads, now, reqs>>

get_user(user_id) ==
    /\ LET i == FindUser(users, user_id)
       IN  resp' = IF i = 0
                   THEN [op |-> "get_user", status |-> 404, detail |-> "User not found"]
                   ELSE [op |-> "get_user", status |-> 200,
                         user_id |-> users[i].id,
                         is_premium |-> users[i].is_premium,
                         subscription_plan |-> users[i].subscription_plan,
                         handicap |-> users[i].handicap,
                         style_choice |-> users[i].style_choice]
    /\ UNCHANGED <<users, swings, uploads, now, reqs, localStorage>>

\* upload_swing up to `await file.read()`, where the event loop can run
\* other requests: the user is resolved, the two checks are made and the file
\* is opened; a request that is rejected returns here
upload_begin(filename, user_id, style) ==
    LET users1 == ResolvedUsers(user_id, style)
        user == users1[ResolvedUser(user_id, style)]
        save_path == SavePath(filename)
    IN  /\ Cardinality(reqs) < NumSlots
        /\ Len(users1) <= MaxUsers
        /\ Len(users1) + Len(uploads) <= MaxRows
        /\ users' = users1
        /\ IF UploadCheck(user, filename, now) # 200
           THEN /\ resp' = UploadError(UploadCheck(user, filename, now))
                /\ UNCHANGED <<uploads, reqs>>
           ELSE /\ Len(users1) + Len(uploads) < MaxRows
                /\ uploads' = Append(uploads, [path |-> save_path, written |-> FALSE])
                /\ reqs' = reqs \cup {[user |-> ResolvedUser(user_id, style),
                                        style |-> style, save_path |-> save_path]}
                /\ UNCHANGED resp
        /\ UNCHANGED <<swings, now, localStorage>>

\* upload_swing from the return of `await file.read()` to the response: the
\* file is written, the swing is stored, the scores are drawn
upload_finish(r, base) ==
    LET swing == NewSwing(Len(swings) + 1, users[r.user].id, r.save_path, r.style, now)
    IN  /\ r \in reqs
        /\ uploads' = [uploads EXCEPT ![r.save_path.uuid].written = TRUE]
        /\ swings' = Append(swings, swing)
        /\ resp' = UploadResponse(swing, process_swing(base, r.style),
                                  users[r.user].is_premium)
        /\ reqs' = reqs \ {r}
        /\ UNCHANGED <<users, now, localStorage>>

create_checkout_session(user_id, ok) ==
    /\ resp' = IF ok
               THEN [op |-> "create_checkout_session", status |-> 200,
                     checkout_url |-> "session.url"]
               ELSE [op |-> "create_checkout_session", status |-> 500,
                     detail |-> "str(e)"]
    /\ UNCHANGED <<users, swings, uploads, now, reqs, localStorage>>

\* every event type taken for a completed checkout
IsAnyEvent(type) == TRUE

\* event["type"] == "checkout.session.completed"
IsCheckoutCompleted(type) == type = "checkout.session.completed"

\* the upgrade without the plan
UpgradedFlagOnly(user) == [user EXCEPT !.is_premium = TRUE]

\* the user row after the upgrade
Upgraded(user) ==
    [user EXCEPT !.is_premium = TRUE, !.subscription_plan = "monthly"]

\* the verification failure answered with an error status
SignatureErrorStatus ==
    [op |-> "stripe_webhook", status |-> 400, body |-> [error |-> "str(e)"]]

\* return {"error": str(e)}
SignatureError ==
    [op |-> "stripe_webhook", status |-> 200, body |-> [error |-> "str(e)"]]

\* verified: stripe.Webhook.construct_event returned an event
stripe_webhook(verified, type, client_reference_id) ==
    LET i == FindUser(users, client_reference_id)
    IN  /\ IF ~verified
           THEN /\ resp' = SignatureError
                /\ UNCHANGED users
           ELSE /\ resp' = [op |-> "stripe_webhook", status |-> 200,
                            body |-> [status |-> "success"]]
                /\ IF IsCheckoutCompleted(type) /\ i # 0
                   THEN users' = [users EXCEPT ![i] = Upgraded(users[i])]
                   ELSE UNCHANGED users
        /\ UNCHANGED <<swings, uploads, now, reqs, localStorage>>

health ==
    /\ resp' = [op |-> "health", status |-> 200, body |-> [status |-> "ok"]]
    /\ UNCHANGED <<users, swings, uploads, now, reqs, localStorage>>

\* time passes
Tick ==
    /\ now + TickDays <= MaxNow
    /\ now' = now + TickDays
    /\ UNCHANGED <<users, swings, uploads, reqs, resp, localStorage>>

-----------------------------------------------------------------------------
(* Specifications *)

UploadBegin ==
    \E f \in FileNames, u \in UserIdInputs, st \in UploadStyles :
        upload_begin(f, u, st)

\* an upload that starts when no other upload is suspended
UploadBeginSerial == reqs = {} /\ UploadBegin

UploadFinish ==
    \E r \in reqs, b \in UploadDraws : upload_finish(r, b)

EnsureUser == ensure_user

GetUser == \E u \in UserIds : get_user(u)

Checkout == \E u \in UserIds, ok \in BOOLEAN : create_checkout_session(u, ok)

\* an event that fails verification has no type and no session
Webhook ==
    \/ stripe_webhook(FALSE, None, None)
    \/ \E t \in EventTypes, u \in UserIds : stripe_webhook(TRUE, t, u)

Health == health

\* the application: an upload is suspended at its file read, and every
\* request, another upload included, can be handled meanwhile
Next ==
    \/ UploadBegin
    \/ UploadFinish
    \/ EnsureUser
    \/ GetUser
    \/ Checkout
    \/ Webhook
    \/ Health
    \/ Tick

Spec == Init /\ [][Next]_vars

\* the executions in which upload requests are handled one at a time: no
\* upload starts while another is suspended; the other requests are handled
\* at any time
NextSerial ==
    \/ UploadBeginSerial
    \/ UploadFinish
    \/ EnsureUser
    \/ GetUser
    \/ Checkout
    \/ Webhook
    \/ Health
    \/ Tick

SpecSerial == Init /\ [][NextSerial]_vars

\* the scoring functions alone
InitScore ==
    /\ users = <<>>
    /\ swings = <<>>
    /\ uploads = <<>>
    /\ now = 0
    /\ reqs = {}
    /\ localStorage = {}
    /\ \E b \in SampledDraws, st \in Styles :
           resp = [op |-> "call", style_choice |-> st, base |-> b]

Score ==
    /\ resp.op = "call"
    /\ resp' = [op |-> "process_swing", style_choice |-> resp.style_choice,
                base |-> resp.base,
                result |-> process_swing(resp.base, resp.style_choice)]
    /\ UNCHANGED <<users, swings, uploads, now, reqs, localStorage>>

NextScore == Score

SpecScore == InitScore /\ [][NextScore]_vars

-----------------------------------------------------------------------------
(* Properties of the scoring functions, under SpecScore *)

\* the multipliers the style table documents, in hundredths (100: unadjusted)
Multiplier(style_choice, k) ==
    CASE style_choice = "classic" /\ k \in {"accuracy", "style"} -> 105
      [] style_choice = "classic" /\ k = "consistency" -> 106
      [] style_choice = "power" /\ k = "power" -> 112
      [] style_choice = "power" /\ k = "accuracy" -> 98
      [] style_choice = "flashy" /\ k = "style" -> 120
      [] style_choice = "flashy" /\ k = "consistency" -> 95
      [] style_choice = "minimalist" /\ k = "consistency" -> 110
      [] style_choice = "minimalist" /\ k = "balance" -> 105
      [] style_choice = "minimalist" /\ k = "style" -> 95
      [] OTHER -> 100

\* v is base * pct / 100 cut to an integer, or 100 when that is 100 or more
IsCappedProduct(v, base, pct) ==
    \/ v < 100 /\ 100 * v <= base * pct /\ base * pct < 100 * (v + 1)
    \/ v = 100 /\ base * pct >= 100 * 100

\* C8: for every style and every draw inside the ranges, process_swing returns
\* exactly the five attributes, each an integer in 0..100 equal to the base
\* value times the style's multiplier, capped at 100 and truncated (the base
\* value itself for an unrecognized style), and overall_score is the mean of
\* the five returned attributes rounded to the nearest integer.
C8_ScoresInRange ==
    resp.op = "process_swing" =>
        LET a == resp.result.attributes
            total == a.power + a.accuracy + a.consistency + a.balance + a.style
        IN  /\ resp.base \in compute_base_attributes
            /\ DOMAIN a = AttrKeys
            /\ \A k \in AttrKeys :
                  /\ a[k] \in 0..100
                  /\ IsCappedProduct(a[k], resp.base[k], Multiplier(resp.style_choice, k))
            /\ resp.style_choice \notin {"classic", "power", "flashy", "minimalist"}
                  => a = resp.base
            /\ resp.result.overall_score \in 0..100
            /\ 2 * (total - 5 * resp.result.overall_score) < 5
            /\ 2 * (5 * resp.result.overall_score - total) < 5

\* a flashy swing whose style draw of 95 is cut to the ceiling
C8_Witness ==
    /\ resp.op = "process_swing"
    /\ resp.style_choice = "flashy"
    /\ resp.base.style = 95
    /\ resp.result.attributes.style = 100
    /\ resp.result.attributes.consistency < resp.base.consistency

-----------------------------------------------------------------------------
(* Properties of the handlers *)

\* the outcome of the first half of an upload: the status of the error it
\* returned, 200 when it went on to the file read
BeginOutcome == IF reqs' # reqs THEN 200 ELSE resp'.status

\* what every step of the first half of an upload does: it leaves the swings
\* table and the clock alone, and either suspends a request or returns an error
IsBeginStep ==
    /\ swings' = swings
    /\ now' = now
    /\ reqs' # reqs \/ resp'.op = "upload_swing"

\* the user id names a row of the users table
Known(user_id) == \E i \in DOMAIN users : users[i].id = user_id

\* the swings of a user, and those created 30 days ago or later
SwingsOf(user_id) == {i \in DOMAIN swings : swings[i].user_id = user_id}

RecentSwingsOf(user_id) ==
    {i \in SwingsOf(user_id) : swings[i].created_at >= now - 30}

\* a free user has at most 3 swings in the window
FreeCap ==
    \A i \in DOMAIN users :
        ~users[i].is_premium => Cardinality(RecentSwingsOf(users[i].id)) <= 3

\* what C1 asks of a step
C1_GateStep ==
    /\ IsBeginStep =>
       \A f \in FileNames, u \in UserIdInputs, st \in UploadStyles :
          upload_begin(f, u, st) =>
              IF u = None \/ ~Known(u)
              THEN BeginOutcome # 403
              ELSE LET user == users[FindUser(users, u)]
                       n == Cardinality(SwingsOf(u))
                       recent == Cardinality(RecentSwingsOf(u))
                   IN  /\ BeginOutcome # 403 <=> (user.is_premium \/ recent < 3)
                       /\ user.is_premium => BeginOutcome # 403
                       /\ (~user.is_premium /\ recent = n /\ f = <<"s", ".", "M", "P", "4">>)
                             => /\ n + 1 <= 3 => BeginOutcome = 200
                                /\ n + 1 >= 4 => BeginOutcome = 403
                       /\ BeginOutcome = 403
                             => resp'.detail = "Free plan limit reached. Upgrade to Premium for unlimited uploads."
    /\ \A r \in reqs, b \in UploadDraws :
          upload_finish(r, b) =>
              /\ reqs = {r}
              /\ Len(swings') = Len(swings) + 1
              /\ resp'.status = 200
    /\ FreeCap'

\* C1: with upload requests handled one at a time, an upload passes the
\* entitlement gate iff the resolved user is premium or has fewer than 3 swings
\* created at or after now - 30 days, counted before the insert; so for a free
\* user whose swings all lie in the window the N-th valid upload is accepted
\* (and then recorded) for N <= 3 and gets the plan-limit error for N >= 4, a
\* premium user is never denied, and a free user never has more than 3 swings
\* in the window.
C1_EntitlementGate == [][C1_GateStep]_vars

\* the fourth upload of a free user inside the window has just been denied
C1_Witness ==
    /\ resp.op = "upload_swing"
    /\ resp.status = 403
    /\ reqs = {}
    /\ \E i \in DOMAIN users :
          /\ ~users[i].is_premium
          /\ Cardinality(SwingsOf(users[i].id)) = 3
          /\ Cardinality(RecentSwingsOf(users[i].id)) = 3

\* the rows of a table that a step leaves as they are
KeepsRows(old, new) ==
    /\ Len(new) >= Len(old)
    /\ \A i \in DOMAIN old : new[i] = old[i]

\* what C2 asks of a step
C2_PremiumStep ==
    /\ \A i \in DOMAIN users :
          /\ i \in DOMAIN users'
          /\ users'[i].id = users[i].id
          /\ users[i].is_premium => users'[i].is_premium
          /\ (\/ users'[i].is_premium # users[i].is_premium
              \/ users'[i].subscription_plan # users[i].subscription_plan)
                => stripe_webhook(TRUE, "checkout.session.completed", users[i].id)
    /\ \A i \in DOMAIN users' \ DOMAIN users : ~users'[i].is_premium
    /\ stripe_webhook(FALSE, None, None) => users' = users
    /\ \A t \in EventTypes \ {"checkout.session.completed"}, u \in UserIds :
          stripe_webhook(TRUE, t, u) => users' = users
    /\ \/ KeepsRows(users, users')
       \/ ~(EnsureUser \/ GetUser \/ UploadBegin \/ UploadFinish \/ Checkout \/ Health)

\* C2: a user's premium flag never goes from true to false, its row is never
\* deleted or given another id, and the flag and the plan change only in a
\* stripe_webhook call with a verified checkout.session.completed event whose
\* client reference is that user's id; every other call, an unverified event
\* and a verified event of another type leave every user's flag and plan as
\* they are, and a row is created free.
C2_PremiumMonotone == [][C2_PremiumStep]_vars

\* a premium user and a free user, after an upload that was accepted
C2_Witness ==
    /\ \E i \in DOMAIN users : users[i].is_premium
    /\ \E j \in DOMAIN users : ~users[j].is_premium
    /\ resp.op = "upload_swing"
    /\ resp.status = 200

\* what C3 asks of a step
C3_CheckoutStep ==
    \A u \in UserIds :
        stripe_webhook(TRUE, "checkout.session.completed", u) =>
            /\ swings' = swings
            /\ uploads' = uploads
            /\ reqs' = reqs
            /\ Len(users') = Len(users)
            /\ resp'.status = 200
            /\ resp'.body = [status |-> "success"]
            /\ IF Known(u)
               THEN \A i \in DOMAIN users :
                       IF users[i].id = u
                       THEN /\ users'[i].is_premium
                            /\ users'[i].subscription_plan = "monthly"
                            /\ users'[i].id = u
                       ELSE users'[i] = users[i]
               ELSE users' = users

\* C3: a verified checkout.session.completed event whose reference is the id
\* of an existing user makes that user premium with plan "monthly" and changes
\* no other user, no swing and no file; with a reference that is no user's id
\* it changes nothing, creates no user and is answered without an error.
C3_CheckoutCompleted == [][C3_CheckoutStep]_vars

\* a user upgraded by the event just handled, beside a user left free
C3_Witness ==
    /\ resp.op = "stripe_webhook"
    /\ resp.body = [status |-> "success"]
    /\ \E i, j \in DOMAIN users :
          /\ users[i].is_premium
          /\ users[i].subscription_plan = "monthly"
          /\ ~users[j].is_premium
          /\ users[j].subscription_plan = None
    /\ swings # <<>>

\* the file name without a video extension, and the one with it in capitals
BadNames == { <<"s", ".", "t", "x", "t">> }

CapitalsName == <<"s", ".", "M", "P", "4">>

\* the resolved user of an upload is free and has 3 or more swings in the window
AtLimit(u) ==
    /\ u # None
    /\ Known(u)
    /\ ~users[FindUser(users, u)].is_premium
    /\ Cardinality(RecentSwingsOf(u)) >= 3

\* the users table after an upload: as it was for a known id, with one more
\* row for an unknown or absent one
ResolvedOnly(u) ==
    /\ KeepsRows(users, users')
    /\ Len(users') = IF u # None /\ Known(u) THEN Len(users) ELSE Len(users) + 1

\* what C4 as stated asks of a step
C4_OriginalStep ==
    IsBeginStep =>
    \A u \in UserIdInputs, st \in UploadStyles :
        /\ \A f \in BadNames :
              upload_begin(f, u, st) =>
                  /\ BeginOutcome = 400
                  /\ users' = users
                  /\ swings' = swings
                  /\ uploads' = uploads
        /\ upload_begin(CapitalsName, u, st) => BeginOutcome # 400

\* C4 as stated: an upload with a bad file name is rejected with the
\* bad-file-type error and leaves users, swings and files as they were, for
\* every user id, known, unknown or absent; a name with an accepted extension
\* in capitals is not rejected as a bad file type.
C4_Original == [][C4_OriginalStep]_vars

\* what C4 as amended asks of a step
C4_AmendedStep ==
    /\ IsBeginStep =>
       \A u \in UserIdInputs, st \in UploadStyles :
          /\ \A f \in BadNames :
                upload_begin(f, u, st) =>
                    /\ swings' = swings
                    /\ uploads' = uploads
                    /\ reqs' = reqs
                    /\ resp'.status = IF AtLimit(u) THEN 403 ELSE 400
                    /\ ResolvedOnly(u)
          /\ upload_begin(CapitalsName, u, st) => BeginOutcome # 400
    /\ \A r \in reqs' \ reqs : IsVideoName(r.save_path.filename)
    /\ \A i \in DOMAIN uploads' \ DOMAIN uploads :
          IsVideoName(uploads'[i].path.filename)

\* C4, amended: an upload with a bad file name creates no swing and writes no
\* file; it gets the bad-file-type error unless the gate denies it first (then
\* the plan-limit error); the users table is unchanged for a known id and has
\* the one new guest for an unknown or absent id; and a name with an accepted
\* extension in capitals is not rejected as a bad file type.
C4_BadFileType == [][C4_AmendedStep]_vars

\* a bad file name has just been rejected, after an upload that was accepted
C4_Witness ==
    /\ resp.op = "upload_swing"
    /\ resp.status = 400
    /\ \E i \in DOMAIN swings : swings[i].s3_video_path.filename = CapitalsName

\* what C5 asks of a step
C5_DeniedStep ==
    IsBeginStep =>
    \A f \in FileNames, u \in UserIdInputs, st \in UploadStyles :
        upload_begin(f, u, st) =>
            /\ BeginOutcome = 403 =>
                  /\ users' = users
                  /\ swings' = swings
                  /\ uploads' = uploads
                  /\ reqs' = reqs
                  /\ resp'.detail = "Free plan limit reached. Upgrade to Premium for unlimited uploads."
            /\ AtLimit(u) => BeginOutcome = 403

\* C5: an upload the gate denies gets the plan-limit error and writes nothing:
\* users, swings and files are as before and the request goes no further; the
\* gate comes before the file check, so a denied upload with a bad file name
\* gets the plan-limit error.
C5_DeniedUpload == [][C5_DeniedStep]_vars

\* an upload has just been denied; every stored swing has its file
C5_Witness ==
    /\ resp.op = "upload_swing"
    /\ resp.status = 403
    /\ Len(swings) >= 3
    /\ Len(uploads) = Len(swings)
    /\ \A i \in DOMAIN uploads : uploads[i].written

\* what C6 asks of a step
C6_GuestStep ==
    /\ IsBeginStep =>
       \A f \in FileNames, u \in UserIdInputs, st \in UploadStyles :
          (~(u # None /\ Known(u)) /\ upload_begin(f, u, st)) =>
              LET guest == users'[Len(users')]
              IN  /\ Len(users') = Len(users) + 1
                  /\ KeepsRows(users, users')
                  /\ guest.name = "Guest"
                  /\ ~guest.is_premium
                  /\ guest.style_choice = st
                  /\ ~Known(guest.id)
                  /\ guest.id \notin localStorage'
                  /\ SwingsOf(guest.id) = {}
                  /\ swings' = swings
                  /\ BeginOutcome # 403
                  /\ f = CapitalsName =>
                        /\ BeginOutcome = 200
                        /\ \E r \in reqs' \ reqs : r.user = Len(users')
                  /\ f # CapitalsName => reqs' = reqs
    /\ \A r \in reqs, b \in UploadDraws :
          (users[r.user].id \notin localStorage /\ upload_finish(r, b)) =>
              /\ users' = users
              /\ KeepsRows(swings, swings')
              /\ Len(swings') = Len(swings) + 1
              /\ swings'[Len(swings')].user_id = users[r.user].id
              /\ resp'.status = 200
              /\ resp'.swing_id = swings'[Len(swings')].id
              /\ resp'.is_premium = FALSE

\* C6: an upload with an unknown or absent user id creates exactly one user,
\* a Guest, free, with the style selector as style preference; the gate, which
\* counts the new user's swings (none), lets it through; a valid file gives
\* exactly one swing owned by the new user and a response with is_premium
\* false; no existing user and no existing swing is changed.
C6_GuestUpload == [][C6_GuestStep]_vars

\* the last user was created by the upload just answered and owns its swing,
\* the only one it has, beside another user who has swings
C6_Witness ==
    /\ resp.op = "upload_swing"
    /\ resp.status = 200
    /\ Len(users) = 2
    /\ users[2].style_choice = "power"
    /\ users[2].id \notin localStorage
    /\ swings[Len(swings)].user_id = users[2].id
    /\ resp.swing_id = swings[Len(swings)].id
    /\ Cardinality(SwingsOf(users[2].id)) = 1
    /\ Cardinality(SwingsOf(users[1].id)) >= 1

\* C7 as stated: every stripe_webhook call is answered with the success
\* acknowledgment.
C7_Original ==
    resp.op = "stripe_webhook" => resp.body = [status |-> "success"]

\* what C7 as amended asks of a step
C7_WebhookStep ==
    /\ stripe_webhook(FALSE, None, None) =>
          /\ resp'.status = 200
          /\ DOMAIN resp'.body = {"error"}
          /\ users' = users
    /\ \A t \in EventTypes, u \in UserIds :
          stripe_webhook(TRUE, t, u) =>
              /\ resp'.status = 200
              /\ resp'.body = [status |-> "success"]

\* C7, amended: every stripe_webhook call is answered with status 200, never
\* an HTTP error; the body is the success acknowledgment for every verified
\* event, whatever its type and whether or not its user exists, and an error
\* object for an event that fails verification, which changes nothing.
C7_WebhookAnswer == [][C7_WebhookStep]_vars

\* an event that failed verification has just been answered
C7_Witness ==
    /\ resp.op = "stripe_webhook"
    /\ resp.status = 200
    /\ "error" \in DOMAIN resp.body
    /\ users # <<>>

\* what C10 asks of a step
C10_SwingStep ==
    /\ KeepsRows(swings, swings')
    /\ Len(swings') <= Len(swings) + 1
    /\ Len(swings') = Len(swings) + 1 <=> UploadFinish
    /\ \A i \in DOMAIN swings' :
          /\ swings'[i].processed = FALSE
          /\ swings'[i].overall_score = None
          /\ swings'[i].power = None
          /\ swings'[i].accuracy = None
          /\ swings'[i].consistency = None
          /\ swings'[i].balance = None
          /\ swings'[i].style_score = None
    /\ \A r \in reqs, b \in UploadDraws :
          upload_finish(r, b) =>
              /\ resp'.status = 200
              /\ resp'.overall_score \in 0..100
              /\ \A k \in AttrKeys : resp'.attributes[k] \in 0..100
              /\ resp'.swing_id = swings'[Len(swings')].id
              /\ swings'[Len(swings')].s3_video_path = r.save_path
              /\ swings'[Len(swings')].created_at = now

\* C10: the scores go to the caller and are never stored: every stored swing
\* has processed false and no score; no step changes or deletes a stored
\* swing; an accepted upload adds exactly one swing and no other step adds any.
C10_ScoresNotStored == [][C10_SwingStep]_vars

\* an upload has just been answered with its scores, its swing stored without
\* them
C10_Witness ==
    /\ resp.op = "upload_swing"
    /\ resp.status = 200
    /\ resp.overall_score > 0
    /\ Len(swings) >= 2
    /\ swings[Len(swings)].id = resp.swing_id
    /\ swings[Len(swings)].overall_score = None
    /\ swings[Len(swings)].processed = FALSE

-----------------------------------------------------------------------------
(* Properties of overlapping uploads *)

\* the requests in flight for the user at position i
InFlightOf(i) == {r \in reqs : r.user = i}

\* a free user's swings in the window and requests in flight, together, are
\* at most 2 and one for each request that can be in flight
InFlightCap ==
    \A i \in DOMAIN users :
        ~users[i].is_premium =>
            Cardinality(RecentSwingsOf(users[i].id)) + Cardinality(InFlightOf(i))
                <= 2 + NumSlots

\* what C9 asks of a step
C9_RaceStep ==
    /\ \A r \in reqs' \ reqs :
          \/ users'[r.user].is_premium
          \/ Cardinality({i \in DOMAIN swings :
                 /\ swings[i].user_id = users'[r.user].id
                 /\ swings[i].created_at >= now - 30}) < 3
    /\ \A i \in DOMAIN swings' \ DOMAIN swings :
          \E r \in reqs \ reqs' : swings'[i].s3_video_path = r.save_path
    /\ InFlightCap'

\* C9: the gate reads the window count before the request's own insert and
\* takes no lock: a request of a free user goes past the gate whenever fewer
\* than 3 swings are stored in the window, whatever is in flight, so two
\* requests that both read 2 are both recorded and the user has 4 swings in
\* the window; the excess is at most one swing for each other request in flight.
C9_UploadRace == [][C9_RaceStep]_vars

\* two overlapping uploads have both been recorded: a free user has 4 swings
\* in the window, nothing is in flight, and the last answer is a success
C9_Witness ==
    /\ reqs = {}
    /\ resp.op = "upload_swing"
    /\ resp.status = 200
    /\ ~resp.is_premium
    /\ \E i \in DOMAIN users :
          /\ ~users[i].is_premium
          /\ Cardinality(RecentSwingsOf(users[i].id)) = 4

====
